---------------------------- MODULE Spec2Model ----------------------------
(***************************************************************************)
(* Guest lifecycle and access control of the event manager backend.        *)
(*                                                                         *)
(* The state is the MongoDB guest collection, the user collection, the     *)
(* requests the Express server is serving and the wall clock.  A request   *)
(* is served in steps, one for every database operation it awaits:         *)
(*   arrival  protect (User.findById) and the synchronous middleware       *)
(*   access   checkGuestAccess (Guest.findById)                            *)
(*   find     the controller's first database operation                    *)
(*   write    the controller's save() / findByIdAndUpdate()                *)
(* Between two steps of one request any step of another request may run.   *)
(***************************************************************************)
EXTENDS Naturals, FiniteSets, Sequences, TLC

(* ------------------------------ bounds -------------------------------- *)
MaxGuests == 2
MaxReq == 2
MaxTime == 2

GuestIds == 1..MaxGuests
Reqs == 1..MaxReq

(* ------------------------------ values -------------------------------- *)
Null == "<null>"
Undefined == "<undefined>"
NullDate == 0

TicketTypes == {"vip", "general", "invitacion"}
Statuses == {"pendiente", "ingresado", "cancelado"}
Roles == {"admin", "staff"}

UserIds == {"a1", "s1", "s2"}
SeedUsers == [u \in UserIds |-> IF u = "a1" THEN "admin" ELSE "staff"]
NoToken == "notoken"
(* A token that jwt.verify rejects, and a signed token of a user that is   *)
(* no longer in the user collection.                                       *)
ForgedToken == "forged"
GoneToken == "gone"
NewUserIds == {"n1"}
SignedTokens == UserIds \cup NewUserIds \cup {GoneToken}

(* A :id path parameter that is not an ObjectId string.                    *)
MalformedId == 0

QrOf(i) == IF i = 1 THEN "q1" ELSE IF i = 2 THEN "q2" ELSE "q3"
QrCodes == {QrOf(i) : i \in GuestIds} \cup {"qx"}

NoUser == [id |-> "none", role |-> "none"]
NoBody == [none |-> TRUE]
NoDoc == [absent |-> TRUE]
NoData == [kind |-> "none"]
GuestData(g) == [kind |-> "guest", guest |-> g]

VARIABLES guests, users, reqs, now
vars == <<guests, users, reqs, now>>

(* --------------------------- Guest model ------------------------------ *)
(* guestSchema: the document new Guest(fields) builds, defaults applied.   *)
guestSchema(fields, t) ==
    [name |-> fields.name, email |-> fields.email, phone |-> fields.phone,
     ticketType |-> fields.ticketType, qrCode |-> fields.qrCode,
     status |-> "pendiente", gift |-> Null, entryTime |-> NullDate,
     createdBy |-> fields.createdBy, createdAt |-> t]

RequiredPaths == {"name", "email", "ticketType", "qrCode", "createdBy"}
EnumOf(path) == IF path = "ticketType" THEN TicketTypes ELSE Statuses
EnumPaths == {"ticketType", "status"}

(* One path's validators: required rejects undefined, null and "", enum    *)
(* rejects a value outside the list.                                       *)
PathInvalid(path, v) ==
    \/ path \in RequiredPaths /\ v \in {Undefined, Null, ""}
    \/ path \in EnumPaths /\ v \notin {Undefined} /\ v \notin EnumOf(path)

ValidationErrorsNone(doc) == {}

(* doc.validate(): the paths of a document that fail validation.           *)
ValidationErrors(doc) == {p \in DOMAIN doc : PathInvalid(p, doc[p])}

canEnterAlways(doc) == TRUE

canEnter(doc) == doc.status = "pendiente"

DuplicateKeyNever(store, id, q) == FALSE

(* the unique index on qrCode: another document holds the value            *)
DuplicateKey(store, id, q) == \E j \in DOMAIN store : j # id /\ store[j].qrCode = q

(* -------------------------- error handling ---------------------------- *)
AppError(statusCode) == [name |-> "Error", code |-> 0, isOperational |-> TRUE, statusCode |-> statusCode]
PlainError == [name |-> "Error", code |-> 0, isOperational |-> FALSE, statusCode |-> 0]
TypeError == [name |-> "TypeError", code |-> 0, isOperational |-> FALSE, statusCode |-> 0]
ValidationError == [name |-> "ValidationError", code |-> 0, isOperational |-> FALSE, statusCode |-> 0]
MongoDuplicate == [name |-> "MongoServerError", code |-> 11000, isOperational |-> FALSE, statusCode |-> 0]
CastError == [name |-> "CastError", code |-> 0, isOperational |-> FALSE, statusCode |-> 0]
(* A ValidationError with its errors object: one entry for a failed path.  *)
ValidationErrorOf(paths) ==
    [name |-> "ValidationError", code |-> 0, isOperational |-> FALSE, statusCode |-> 0, errors |-> paths]

errorHandler(err) ==
    IF err.name = "ValidationError" THEN 400
    ELSE IF err.code = 11000 THEN 400
    ELSE IF err.name = "JsonWebTokenError" THEN 401
    ELSE IF err.name = "TokenExpiredError" THEN 401
    ELSE IF err.isOperational THEN (IF err.statusCode # 0 THEN err.statusCode ELSE 500)
    ELSE 500

(* The body errorHandler answers with: a ValidationError is answered with  *)
(* the messages of its errors, one for a failed path.                      *)
errorData(err) ==
    IF err.name = "ValidationError" /\ "errors" \in DOMAIN err
    THEN [kind |-> "validation", messages |-> err.errors]
    ELSE NoData

(* ------------------------------ requests ------------------------------ *)
Idle == [pc |-> "idle", op |-> "none", token |-> NoToken, user |-> NoUser, id |-> 0,
         body |-> NoBody, doc |-> NoDoc, code |-> 0, data |-> NoData]

InFlight(r) == reqs[r].pc \notin {"idle", "done"}

IdOps == {"get", "update", "delete", "entry", "gift"}

(* res.status(code).json(data): the request is answered.  An answered      *)
(* request keeps its operation, token, target, status code and response    *)
(* data.                                                                   *)
Respond(r, code, data) ==
    reqs' = [reqs EXCEPT ![r] = [Idle EXCEPT !.pc = "done", !.op = reqs[r].op, !.token = reqs[r].token,
                                               !.id = reqs[r].id, !.code = code, !.data = data]]

Goto(r, pc, doc) ==
    reqs' = [reqs EXCEPT ![r] = [@ EXCEPT !.pc = pc, !.doc = doc]]

(* jwt.verify: the id a signed token carries; it throws on any other.      *)
jwtVerify(token) == IF token \in SignedTokens THEN token ELSE Undefined

protectTrusting(token) ==
    IF token = NoToken THEN NoUser
    ELSE IF jwtVerify(token) = Undefined THEN NoUser
    ELSE [id |-> jwtVerify(token), role |-> "staff"]

(* protect: the user the token names, read from the user collection; no    *)
(* user for a missing token, a token that does not verify or a user that   *)
(* is not found.                                                           *)
protect(token) ==
    IF token = NoToken THEN NoUser
    ELSE IF jwtVerify(token) = Undefined THEN NoUser
    ELSE IF jwtVerify(token) \notin DOMAIN users THEN NoUser
    ELSE [id |-> jwtVerify(token), role |-> users[jwtVerify(token)]]

canManageGuests(user) == user.role \in {"admin", "staff"}

isAdminAny(user) == TRUE

isAdmin(user) == user.role = "admin"

(* the routes of authRoutes behind router.use(isAdmin)                     *)
AdminOps == {"register", "getUsers", "deleteUser", "updateUserRole"}

(* A request arrives: protect, then the route's synchronous middleware.    *)
Arrive(r, q) ==
    /\ ~InFlight(r)
    /\ LET user == protect(q.token)
           fresh == [Idle EXCEPT !.op = q.op, !.token = q.token, !.id = q.id, !.body = q.body]
           denied(code) == [Idle EXCEPT !.pc = "done", !.op = q.op, !.token = q.token, !.id = q.id,
                                        !.code = code]
       IN  reqs' = [reqs EXCEPT ![r] =
              IF user = NoUser THEN denied(401)
              ELSE IF q.op = "create" /\ ~canManageGuests(user) THEN denied(403)
              ELSE IF q.op \in AdminOps /\ ~isAdmin(user) THEN denied(403)
              ELSE [fresh EXCEPT !.pc = IF q.op \in IdOps THEN "access" ELSE "find", !.user = user]]
    /\ UNCHANGED <<guests, users, now>>

HasAccessAny(user, guest) == TRUE

(* req.user.role === 'admin' || guest.createdBy.equals(req.user._id)       *)
HasAccess(user, guest) == user.role = "admin" \/ guest.createdBy = user.id

(* Guest.findById casts the id to an ObjectId before it queries.           *)
IsObjectId(id) == id # MalformedId

(* checkGuestAccess: 404 for a missing guest, then admin or owner.  An id  *)
(* that does not cast makes findById throw, and the catch hands the        *)
(* CastError to errorHandler.                                              *)
checkGuestAccess(r) ==
    /\ reqs[r].pc = "access"
    /\ LET id == reqs[r].id
           user == reqs[r].user
       IN  IF ~IsObjectId(id) THEN Respond(r, errorHandler(CastError), NoData)
           ELSE IF id \notin DOMAIN guests THEN Respond(r, 404, NoData)
           ELSE IF HasAccess(user, guests[id])
                THEN Goto(r, "find", NoDoc)
                ELSE Respond(r, 403, NoData)
    /\ UNCHANGED <<guests, users, now>>


(* ----------------------------- controllers ---------------------------- *)
(* The pre('save') hook: a qrCode is generated only when the document has  *)
(* none.  q stands for the timestamp-random string it builds.              *)
preSave(doc, q) ==
    IF doc.qrCode \in {Undefined, Null, ""} THEN [doc EXCEPT !.qrCode = q] ELSE doc

(* Document.save() of a new document: validation runs first (mongoose      *)
(* registers it ahead of every schema pre('save') hook), then the hooks,   *)
(* then the insert under the unique index.                                 *)
SaveNew(store, doc, q) ==
    LET free == GuestIds \ DOMAIN store
        hooked == preSave(doc, q)
    IN  IF ValidationErrors(doc) # {}
        THEN [err |-> ValidationErrorOf(ValidationErrors(doc)), store |-> store, doc |-> doc]
        ELSE IF DuplicateKey(store, 0, hooked.qrCode) THEN [err |-> MongoDuplicate, store |-> store, doc |-> doc]
        ELSE IF free = {} THEN [err |-> PlainError, store |-> store, doc |-> doc]
        ELSE LET id == CHOOSE i \in free : \A j \in free : i <= j
             IN  [err |-> NoBody,
                  store |-> [i \in DOMAIN store \cup {id} |-> IF i = id THEN hooked ELSE store[i]],
                  doc |-> hooked]

createGuest(r) ==
    /\ reqs[r].pc = "find" /\ reqs[r].op = "create"
    /\ \E q \in QrCodes :
         LET body == reqs[r].body
             doc == guestSchema([name |-> body.name, email |-> body.email, phone |-> body.phone,
                                 ticketType |-> body.ticketType, qrCode |-> Undefined,
                                 createdBy |-> reqs[r].user.id], now)
             saved == SaveNew(guests, doc, q)
         IN  /\ guests' = saved.store
             /\ IF saved.err = NoBody THEN Respond(r, 201, GuestData(saved.doc))
                ELSE Respond(r, errorHandler(saved.err), errorData(saved.err))
    /\ UNCHANGED <<users, now>>

Truthy(v) == v \notin {Undefined, Null, ""}

ListQueryAll(user, params) ==
    LET paths == {p \in {"status", "ticketType"} : Truthy(params[p])}
    IN  [p \in paths |-> params[p]]

(* The query getGuests builds: createdBy for a user that is not admin, and *)
(* the status and ticketType query parameters that are given.              *)
ListQuery(user, params) ==
    LET paths == (IF user.role # "admin" THEN {"createdBy"} ELSE {})
                 \cup {p \in {"status", "ticketType"} : Truthy(params[p])}
    IN  [p \in paths |-> IF p = "createdBy" THEN user.id ELSE params[p]]

(* Guest.find(query): a document matches when every path of the query has  *)
(* the query's value.                                                      *)
Matches(query, g) == \A p \in DOMAIN query : g[p] = query[p]

(* .sort('-createdAt'): the orders of the found documents with createdAt   *)
(* descending; documents with equal createdAt come in any order.           *)
SortDesc(store, ids) ==
    {s \in [1..Cardinality(ids) -> ids] :
        \A a \in DOMAIN s : \A b \in DOMAIN s :
            a < b => s[a] # s[b] /\ store[s[a]].createdAt >= store[s[b]].createdAt}

(* .populate('createdBy', 'username'): null for a user that is not found.  *)
populate(g) == [g EXCEPT !.createdBy = IF @ \in DOMAIN users THEN @ ELSE Null]

getGuests(r) ==
    /\ reqs[r].pc = "find" /\ reqs[r].op = "list"
    /\ LET query == ListQuery(reqs[r].user, reqs[r].body)
           found == {i \in DOMAIN guests : Matches(query, guests[i])}
       IN  \E s \in SortDesc(guests, found) :
              Respond(r, 200, [kind |-> "list", count |-> Cardinality(found),
                               guests |-> [k \in DOMAIN s |-> populate(guests[s[k]])]])
    /\ UNCHANGED <<guests, users, now>>

(* The ownership test the get, update and delete controllers repeat.       *)
NotOwner(user, guest) == user.role # "admin" /\ guest.createdBy # user.id

getGuest(r) ==
    /\ reqs[r].pc = "find" /\ reqs[r].op = "get"
    /\ LET id == reqs[r].id
       IN  IF id \notin DOMAIN guests THEN Respond(r, errorHandler(AppError(404)), NoData)
           ELSE IF reqs[r].user.role # "admin" /\ guests[id].createdBy \notin DOMAIN users
                THEN Respond(r, errorHandler(TypeError), NoData)
           ELSE IF NotOwner(reqs[r].user, guests[id]) THEN Respond(r, errorHandler(AppError(403)), NoData)
           ELSE Respond(r, 200, GuestData(guests[id]))
    /\ UNCHANGED <<guests, users, now>>

updateGuestFind(r) ==
    /\ reqs[r].pc = "find" /\ reqs[r].op = "update"
    /\ LET id == reqs[r].id
       IN  IF id \notin DOMAIN guests THEN Respond(r, errorHandler(AppError(404)), NoData)
           ELSE IF NotOwner(reqs[r].user, guests[id]) THEN Respond(r, errorHandler(AppError(403)), NoData)
           ELSE Goto(r, "write", NoDoc)
    /\ UNCHANGED <<guests, users, now>>

findByIdAndUpdateUnvalidated(store, id, body) ==
    LET paths == DOMAIN body \cap DOMAIN store[id]
    IN  [err |-> NoBody,
         store |-> [store EXCEPT ![id] = [p \in DOMAIN @ |-> IF p \in paths THEN body[p] ELSE @[p]]]]

(* findByIdAndUpdate(id, body, {new, runValidators}): the body's schema    *)
(* paths are validated, then $set in one atomic write.                     *)
findByIdAndUpdate(store, id, body) ==
    LET paths == DOMAIN body \cap DOMAIN store[id]
        bad == {p \in paths : PathInvalid(p, body[p])}
    IN  IF bad # {} THEN [err |-> ValidationErrorOf(bad), store |-> store]
        ELSE IF "qrCode" \in paths /\ DuplicateKey(store, id, body.qrCode)
             THEN [err |-> MongoDuplicate, store |-> store]
        ELSE [err |-> NoBody,
              store |-> [store EXCEPT ![id] = [p \in DOMAIN @ |-> IF p \in paths THEN body[p] ELSE @[p]]]]

updateGuestWrite(r) ==
    /\ reqs[r].pc = "write" /\ reqs[r].op = "update"
    /\ LET id == reqs[r].id
       IN  IF id \notin DOMAIN guests THEN /\ Respond(r, 200, [kind |-> "null"])
                                           /\ UNCHANGED guests
           ELSE LET res == findByIdAndUpdate(guests, id, reqs[r].body)
                IN  /\ guests' = res.store
                    /\ IF res.err = NoBody THEN Respond(r, 200, GuestData(res.store[id]))
                       ELSE Respond(r, errorHandler(res.err), errorData(res.err))
    /\ UNCHANGED <<users, now>>

(* deleteGuest: guest.remove() is not a function of a mongoose 7 document, *)
(* so the call throws a TypeError before any write is issued.              *)
deleteGuest(r) ==
    /\ reqs[r].pc = "find" /\ reqs[r].op = "delete"
    /\ LET id == reqs[r].id
       IN  IF id \notin DOMAIN guests THEN Respond(r, errorHandler(AppError(404)), NoData)
           ELSE IF NotOwner(reqs[r].user, guests[id]) THEN Respond(r, errorHandler(AppError(403)), NoData)
           ELSE Respond(r, errorHandler(TypeError), NoData)
    /\ UNCHANGED <<guests, users, now>>

registerEntryFindCancels(r) ==
    /\ reqs[r].pc = "find" /\ reqs[r].op = "entry"
    /\ LET id == reqs[r].id
       IN  IF id \notin DOMAIN guests THEN Respond(r, errorHandler(AppError(404)), NoData)
           ELSE IF ~canEnter(guests[id]) THEN Respond(r, errorHandler(AppError(400)), NoData)
           ELSE Goto(r, "write", [guests[id] EXCEPT !.status = "cancelado", !.entryTime = now])
    /\ UNCHANGED <<guests, users, now>>

(* registerEntry up to its await: the guest is read and checked, then the  *)
(* local document is changed and save() is called.                         *)
registerEntryFind(r) ==
    /\ reqs[r].pc = "find" /\ reqs[r].op = "entry"
    /\ LET id == reqs[r].id
       IN  IF id \notin DOMAIN guests THEN Respond(r, errorHandler(AppError(404)), NoData)
           ELSE IF ~canEnter(guests[id]) THEN Respond(r, errorHandler(AppError(400)), NoData)
           ELSE Goto(r, "write", [guests[id] EXCEPT !.status = "ingresado", !.entryTime = now])
    /\ UNCHANGED <<guests, users, now>>

SaveModifiedWhole(store, id, doc, paths) ==
    IF id \notin DOMAIN store THEN [err |-> PlainError, store |-> store]
    ELSE [err |-> NoBody, store |-> [store EXCEPT ![id] = doc]]

(* Document.save() of a loaded document: $set of the modified paths.  A    *)
(* document deleted meanwhile makes save() throw DocumentNotFoundError.    *)
SaveModified(store, id, doc, paths) ==
    IF id \notin DOMAIN store THEN [err |-> PlainError, store |-> store]
    ELSE [err |-> NoBody,
          store |-> [store EXCEPT ![id] = [p \in DOMAIN @ |-> IF p \in paths THEN doc[p] ELSE @[p]]]]

(* this.save() in a model method: the required and the modified paths are  *)
(* validated, the pre('save') hook runs (it modifies qrCode only when the  *)
(* document has none), then the modified paths are written.                *)
SaveLoaded(store, id, doc, paths, q) ==
    LET bad == {p \in RequiredPaths \cup paths : PathInvalid(p, doc[p])}
        hooked == preSave(doc, q)
        modified == paths \cup {p \in {"qrCode"} : hooked.qrCode # doc.qrCode}
    IN  IF bad # {} THEN [err |-> ValidationErrorOf(bad), store |-> store, doc |-> doc]
        ELSE [err |-> SaveModified(store, id, hooked, modified).err,
              store |-> SaveModified(store, id, hooked, modified).store,
              doc |-> hooked]

registerEntrySaveThenFails(r) ==
    /\ reqs[r].pc = "write" /\ reqs[r].op = "entry"
    /\ LET res == SaveModified(guests, reqs[r].id, reqs[r].doc, {"status", "entryTime"})
       IN  /\ guests' = res.store
           /\ Respond(r, errorHandler(PlainError), NoData)
    /\ UNCHANGED <<users, now>>

registerEntrySave(r) ==
    /\ reqs[r].pc = "write" /\ reqs[r].op = "entry"
    /\ \E q \in QrCodes :
         LET res == SaveLoaded(guests, reqs[r].id, reqs[r].doc, {"status", "entryTime"}, q)
         IN  /\ guests' = res.store
             /\ IF res.err = NoBody THEN Respond(r, 200, GuestData(res.doc))
                ELSE Respond(r, errorHandler(res.err), errorData(res.err))
    /\ UNCHANGED <<users, now>>

registerGiftFindOnce(r) ==
    /\ reqs[r].pc = "find" /\ reqs[r].op = "gift"
    /\ LET id == reqs[r].id
       IN  IF id \notin DOMAIN guests THEN Respond(r, errorHandler(AppError(404)), NoData)
           ELSE IF guests[id].ticketType # "invitacion" THEN Respond(r, errorHandler(PlainError), NoData)
           ELSE IF guests[id].gift # Null THEN Respond(r, errorHandler(AppError(400)), NoData)
           ELSE Goto(r, "write", [guests[id] EXCEPT !.gift = reqs[r].body.gift])
    /\ UNCHANGED <<guests, users, now>>

(* registerGift up to its await: the model method throws a plain Error     *)
(* for a guest that is not of type invitacion.                             *)
registerGiftFind(r) ==
    /\ reqs[r].pc = "find" /\ reqs[r].op = "gift"
    /\ LET id == reqs[r].id
       IN  IF id \notin DOMAIN guests THEN Respond(r, errorHandler(AppError(404)), NoData)
           ELSE IF guests[id].ticketType # "invitacion" THEN Respond(r, errorHandler(PlainError), NoData)
           ELSE Goto(r, "write", [guests[id] EXCEPT !.gift = reqs[r].body.gift])
    /\ UNCHANGED <<guests, users, now>>

registerGiftSave(r) ==
    /\ reqs[r].pc = "write" /\ reqs[r].op = "gift"
    /\ \E q \in QrCodes :
         LET res == SaveLoaded(guests, reqs[r].id, reqs[r].doc, {"gift"}, q)
         IN  /\ guests' = res.store
             /\ IF res.err = NoBody THEN Respond(r, 200, GuestData(res.doc))
                ELSE Respond(r, errorHandler(res.err), errorData(res.err))
    /\ UNCHANGED <<users, now>>

verifyGuestByQROwned(r) ==
    /\ reqs[r].pc = "find" /\ reqs[r].op = "verify"
    /\ LET found == {i \in DOMAIN guests : /\ guests[i].qrCode = reqs[r].body.qrCode
                                           /\ HasAccess(reqs[r].user, guests[i])}
       IN  IF found = {} THEN Respond(r, errorHandler(AppError(404)), NoData)
           ELSE Respond(r, 200, GuestData(guests[CHOOSE i \in found : \A j \in found : i <= j]))
    /\ UNCHANGED <<guests, users, now>>

(* verifyGuestByQR: Guest.findOne({qrCode}), with no test of the caller.   *)
verifyGuestByQR(r) ==
    /\ reqs[r].pc = "find" /\ reqs[r].op = "verify"
    /\ LET found == {i \in DOMAIN guests : guests[i].qrCode = reqs[r].body.qrCode}
       IN  IF found = {} THEN Respond(r, errorHandler(AppError(404)), NoData)
           ELSE Respond(r, 200, GuestData(guests[CHOOSE i \in found : \A j \in found : i <= j]))
    /\ UNCHANGED <<guests, users, now>>

CondEqOnly(test, g) ==
    IF test.op = "$eq" THEN (IF g[test.path] = test.value THEN 1 ELSE 0) ELSE 1

(* {$cond: [{$eq | $ne: ['$path', value]}, 1, 0]} for one document.        *)
Cond(test, g) ==
    IF test.op = "$eq" THEN (IF g[test.path] = test.value THEN 1 ELSE 0)
    ELSE IF test.op = "$ne" THEN (IF g[test.path] # test.value THEN 1 ELSE 0)
    ELSE 1

(* {$sum: ...} of a $group over the whole collection.                      *)
RECURSIVE Sum(_, _, _)
Sum(store, ids, test) ==
    IF ids = {} THEN 0
    ELSE LET i == CHOOSE j \in ids : TRUE
         IN  Cond(test, store[i]) + Sum(store, ids \ {i}, test)

Eq(path, value) == [op |-> "$eq", path |-> path, value |-> value]
Ne(path, value) == [op |-> "$ne", path |-> path, value |-> value]
One == [op |-> "1", path |-> "", value |-> ""]

ZeroStats == [totalGuests |-> 0, enteredGuests |-> 0, pendingGuests |-> 0, vipGuests |-> 0,
              generalGuests |-> 0, invitacionGuests |-> 0, giftsRegistered |-> 0]

AggregateRest(store) ==
    LET ids == DOMAIN store
    IN  IF ids = {} THEN ZeroStats
        ELSE [totalGuests |-> Sum(store, ids, One),
              enteredGuests |-> Sum(store, ids, Eq("status", "ingresado")),
              pendingGuests |-> Sum(store, ids, Ne("status", "ingresado")),
              vipGuests |-> Sum(store, ids, Eq("ticketType", "vip")),
              generalGuests |-> Sum(store, ids, Eq("ticketType", "general")),
              invitacionGuests |-> Sum(store, ids, Eq("ticketType", "invitacion")),
              giftsRegistered |-> Sum(store, ids, Ne("gift", Null))]

(* Guest.aggregate([{$group: {_id: null, ...}}]): no group for an empty    *)
(* collection, and then the controller answers the zero report.            *)
Aggregate(store) ==
    LET ids == DOMAIN store
    IN  IF ids = {} THEN ZeroStats
        ELSE [totalGuests |-> Sum(store, ids, One),
              enteredGuests |-> Sum(store, ids, Eq("status", "ingresado")),
              pendingGuests |-> Sum(store, ids, Eq("status", "pendiente")),
              vipGuests |-> Sum(store, ids, Eq("ticketType", "vip")),
              generalGuests |-> Sum(store, ids, Eq("ticketType", "general")),
              invitacionGuests |-> Sum(store, ids, Eq("ticketType", "invitacion")),
              giftsRegistered |-> Sum(store, ids, Ne("gift", Null))]

getGuestStats(r) ==
    /\ reqs[r].pc = "find" /\ reqs[r].op = "stats"
    /\ Respond(r, 200, [kind |-> "stats", stats |-> Aggregate(guests)])
    /\ UNCHANGED <<guests, users, now>>

(* calculateStats: one reduce over a list of guests, starting from zero    *)
(* counters; a gift counts only for a guest of type invitacion, and only   *)
(* when it is truthy.                                                      *)
calculateStatsZero ==
    [total |-> 0,
     byTicketType |-> [vip |-> 0, general |-> 0, invitacion |-> 0],
     byStatus |-> [pendiente |-> 0, ingresado |-> 0, cancelado |-> 0],
     giftsReceived |-> 0]

calculateStatsStep(stats, guest) ==
    [total |-> stats.total + 1,
     byTicketType |-> [stats.byTicketType EXCEPT ![guest.ticketType] = @ + 1],
     byStatus |-> [stats.byStatus EXCEPT ![guest.status] = @ + 1],
     giftsReceived |-> IF guest.ticketType = "invitacion" /\ Truthy(guest.gift)
                       THEN stats.giftsReceived + 1 ELSE stats.giftsReceived]

RECURSIVE calculateStats(_)
calculateStats(list) ==
    IF list = <<>> THEN calculateStatsZero
    ELSE calculateStatsStep(calculateStats(SubSeq(list, 1, Len(list) - 1)), list[Len(list)])

(* ------------------------- user administration ----------------------- *)
(* The role path of the User schema: admin or staff.                       *)
UserRoleInvalid(role) == role \notin Roles

UserData(id, role) == [kind |-> "user", id |-> id, role |-> role]

(* register up to User.create: a taken username is refused.                *)
registerFind(r) ==
    /\ reqs[r].pc = "find" /\ reqs[r].op = "register"
    /\ IF reqs[r].body.username \in DOMAIN users
       THEN Respond(r, errorHandler(AppError(400)), NoData)
       ELSE Goto(r, "write", NoDoc)
    /\ UNCHANGED <<guests, users, now>>

(* User.create({username, password, role: role || 'staff'}) under the      *)
(* unique index on username.                                               *)
registerCreate(r) ==
    /\ reqs[r].pc = "write" /\ reqs[r].op = "register"
    /\ LET name == reqs[r].body.username
           role == IF Truthy(reqs[r].body.role) THEN reqs[r].body.role ELSE "staff"
       IN  IF UserRoleInvalid(role)
           THEN /\ Respond(r, errorHandler(ValidationErrorOf({"role"})), errorData(ValidationErrorOf({"role"})))
                /\ UNCHANGED users
           ELSE IF name \in DOMAIN users
           THEN /\ Respond(r, errorHandler(MongoDuplicate), NoData)
                /\ UNCHANGED users
           ELSE /\ users' = [u \in DOMAIN users \cup {name} |-> IF u = name THEN role ELSE users[u]]
                /\ Respond(r, 201, UserData(name, role))
    /\ UNCHANGED <<guests, now>>

getUsers(r) ==
    /\ reqs[r].pc = "find" /\ reqs[r].op = "getUsers"
    /\ Respond(r, 200, [kind |-> "users", count |-> Cardinality(DOMAIN users), users |-> users])
    /\ UNCHANGED <<guests, users, now>>

(* deleteUser: user.remove() is not a function of a mongoose 7 document,   *)
(* so the call throws a TypeError before any write is issued.              *)
deleteUser(r) ==
    /\ reqs[r].pc = "find" /\ reqs[r].op = "deleteUser"
    /\ LET id == reqs[r].body.id
       IN  IF id \notin DOMAIN users THEN Respond(r, errorHandler(AppError(404)), NoData)
           ELSE IF id = reqs[r].user.id THEN Respond(r, errorHandler(AppError(400)), NoData)
           ELSE Respond(r, errorHandler(TypeError), NoData)
    /\ UNCHANGED <<guests, users, now>>

updateUserRoleFind(r) ==
    /\ reqs[r].pc = "find" /\ reqs[r].op = "updateUserRole"
    /\ LET id == reqs[r].body.id
       IN  IF id \notin DOMAIN users THEN Respond(r, errorHandler(AppError(404)), NoData)
           ELSE IF id = reqs[r].user.id THEN Respond(r, errorHandler(AppError(400)), NoData)
           ELSE Goto(r, "write", NoDoc)
    /\ UNCHANGED <<guests, users, now>>

(* user.role = role; user.save(): the role is validated, then written.     *)
updateUserRoleSave(r) ==
    /\ reqs[r].pc = "write" /\ reqs[r].op = "updateUserRole"
    /\ LET id == reqs[r].body.id
           role == reqs[r].body.role
       IN  IF UserRoleInvalid(role)
           THEN /\ Respond(r, errorHandler(ValidationErrorOf({"role"})), errorData(ValidationErrorOf({"role"})))
                /\ UNCHANGED users
           ELSE IF id \notin DOMAIN users
           THEN /\ Respond(r, errorHandler(PlainError), NoData)
                /\ UNCHANGED users
           ELSE /\ users' = [users EXCEPT ![id] = role]
                /\ Respond(r, 200, UserData(id, role))
    /\ UNCHANGED <<guests, now>>

(* One step of a request to a user administration route.                   *)
AdminStep(r) ==
    \/ registerFind(r)
    \/ registerCreate(r)
    \/ getUsers(r)
    \/ deleteUser(r)
    \/ updateUserRoleFind(r)
    \/ updateUserRoleSave(r)

(* One step of a request that is being served.                             *)
Step(r) ==
    \/ checkGuestAccess(r)
    \/ createGuest(r)
    \/ getGuests(r)
    \/ getGuest(r)
    \/ updateGuestFind(r)
    \/ updateGuestWrite(r)
    \/ deleteGuest(r)
    \/ registerEntryFind(r)
    \/ registerEntrySave(r)
    \/ registerGiftFind(r)
    \/ registerGiftSave(r)
    \/ verifyGuestByQR(r)
    \/ getGuestStats(r)

(* --------------------------- initial states --------------------------- *)
(* The guest collection the server is started on: every guest as the       *)
(* schema defaults leave a new one (pendiente, no gift, no entry time),    *)
(* with its own qrCode.                                                    *)
OwnerOf(i) == IF i = 1 THEN "s1" ELSE "s2"

SeedGuest(i, tt) ==
    guestSchema([name |-> "ana", email |-> "ana@x.com", phone |-> "555",
                 ticketType |-> tt, qrCode |-> QrOf(i), createdBy |-> OwnerOf(i)], 0)

InitWith(types) ==
    /\ \E ids \in SUBSET GuestIds : \E tt \in [ids -> types] :
          guests = [i \in ids |-> SeedGuest(i, tt[i])]
    /\ users = SeedUsers
    /\ reqs = [r \in Reqs |-> Idle]
    /\ now = 1

Init == InitWith(TicketTypes)

(* ------------------------------ workloads ----------------------------- *)
Req(op, token, id, body) == [op |-> op, token |-> token, id |-> id, body |-> body]

CreateBodies ==
    {[name |-> "bo", email |-> "bo@x.com", phone |-> "556", ticketType |-> tt] : tt \in TicketTypes}
    \cup {[name |-> Undefined, email |-> "bo@x.com", phone |-> "556", ticketType |-> "vip"]}

LifecyclePatches ==
    {[status |-> s] : s \in Statuses \cup {"otro"}}
    \cup {[ticketType |-> tt] : tt \in TicketTypes}
    \cup {[gift |-> "g1"]}

GiftBodies == {[gift |-> "g1"]}

LifecycleTokens == {"a1", "s1", NoToken}

LifecycleRequests ==
    {Req("create", t, 0, b) : t \in LifecycleTokens, b \in CreateBodies}
    \cup {Req("list", t, 0, [status |-> Undefined, ticketType |-> Undefined]) : t \in LifecycleTokens}
    \cup {Req("get", t, i, NoBody) : t \in LifecycleTokens, i \in GuestIds}
    \cup {Req("update", t, i, b) : t \in LifecycleTokens, i \in GuestIds, b \in LifecyclePatches}
    \cup {Req("delete", t, i, NoBody) : t \in LifecycleTokens, i \in GuestIds}
    \cup {Req("entry", t, i, NoBody) : t \in LifecycleTokens, i \in GuestIds}
    \cup {Req("gift", t, i, b) : t \in LifecycleTokens, i \in GuestIds, b \in GiftBodies}
    \cup {Req("verify", t, 0, [qrCode |-> q]) : t \in LifecycleTokens, q \in QrCodes}
    \cup {Req("stats", t, 0, NoBody) : t \in LifecycleTokens}

(* Requests served one at a time: the next arrives when none is in flight. *)
NextRequest == \E q \in LifecycleRequests : Arrive(1, q)
Serve == Step(1)
Next == NextRequest \/ Serve
Spec == Init /\ [][Next]_vars


(* Concurrent check-ins: every request slot serves one registerEntry.      *)
EntryRequests == {Req("entry", t, i, NoBody) : t \in {"a1", "s1"}, i \in GuestIds}
NextEntryRequest == \E r \in Reqs : \E q \in EntryRequests : reqs[r].pc = "idle" /\ Arrive(r, q)
ServeEntry == \E r \in Reqs : checkGuestAccess(r) \/ registerEntryFind(r) \/ registerEntrySave(r)
NextEntry == NextEntryRequest \/ ServeEntry
SpecEntry == Init /\ [][NextEntry]_vars

(* Check-ins and status updates, served one at a time.                     *)
InitCheckIn == InitWith({"general"})
CheckInRequests ==
    {Req("entry", t, i, NoBody) : t \in {"a1", "s1"}, i \in GuestIds}
    \cup {Req("update", "a1", i, [status |-> st]) : i \in GuestIds, st \in Statuses}
NextCheckInRequest == \E q \in CheckInRequests : Arrive(1, q)
ServeCheckIn ==
    \/ checkGuestAccess(1)
    \/ registerEntryFind(1)
    \/ registerEntrySave(1)
    \/ updateGuestFind(1)
    \/ updateGuestWrite(1)
NextCheckIn == NextCheckInRequest \/ ServeCheckIn
SpecCheckIn == InitCheckIn /\ [][NextCheckIn]_vars

(* Every route behind checkGuestAccess, called by the admin, by the staff  *)
(* user that created the guest and by another staff user, one at a time.   *)
InitAccess == InitWith(TicketTypes)
AccessRequests ==
    {Req(op, t, i, NoBody) : op \in {"get", "delete", "entry"}, t \in UserIds, i \in GuestIds}
    \cup {Req(op, t, i, b) : op \in {"update", "gift"}, t \in UserIds, i \in GuestIds, b \in GiftBodies}
NextAccessRequest == \E q \in AccessRequests : Arrive(1, q)
ServeAccess ==
    \/ checkGuestAccess(1)
    \/ getGuest(1)
    \/ updateGuestFind(1)
    \/ updateGuestWrite(1)
    \/ deleteGuest(1)
    \/ registerEntryFind(1)
    \/ registerEntrySave(1)
    \/ registerGiftFind(1)
    \/ registerGiftSave(1)
NextAccess == NextAccessRequest \/ ServeAccess
SpecAccess == InitAccess /\ [][NextAccess]_vars

(* Updates of status, ticket type and gift by the admin, and stats.        *)
StatsPatches ==
    {[status |-> st] : st \in Statuses} \cup {[ticketType |-> tt] : tt \in TicketTypes}
    \cup {[gift |-> "g1"]}
StatsRequests ==
    {Req("update", "a1", i, b) : i \in GuestIds, b \in StatsPatches}
    \cup {Req("stats", t, 0, NoBody) : t \in {"a1", "s1"}}
NextStatsRequest == \E q \in StatsRequests : Arrive(1, q)
ServeStats ==
    \/ checkGuestAccess(1)
    \/ updateGuestFind(1)
    \/ updateGuestWrite(1)
    \/ getGuestStats(1)
NextStats == NextStatsRequest \/ ServeStats
SpecStats == Init /\ [][NextStats]_vars

(* Concurrent creates and updates that carry a qrCode.                     *)
InitQr == InitWith({"vip"})
QrRequests ==
    {Req("create", "a1", 0, b) : b \in CreateBodies}
    \cup {Req("update", "a1", i, [qrCode |-> q]) : i \in GuestIds, q \in {QrOf(1), "qx"}}
NextQrRequest == \E r \in Reqs : \E q \in QrRequests : Arrive(r, q)
ServeQr == \E r \in Reqs : checkGuestAccess(r) \/ createGuest(r) \/ updateGuestFind(r) \/ updateGuestWrite(r)
NextQr == NextQrRequest \/ ServeQr
SpecQr == InitQr /\ [][NextQr]_vars

(* Lists by the admin and by both staff users, with and without filters,   *)
(* over guests created at different times, and check-ins in between.       *)
ListTimes == {0, 1}
InitList ==
    /\ \E ids \in SUBSET GuestIds : \E tt \in [ids -> {"vip", "general"}] : \E ct \in [ids -> ListTimes] :
          guests = [i \in ids |-> [SeedGuest(i, tt[i]) EXCEPT !.createdAt = ct[i]]]
    /\ users = SeedUsers
    /\ reqs = [r \in Reqs |-> Idle]
    /\ now = 1
ListParams ==
    {[status |-> st, ticketType |-> tt] : st \in {Undefined, "pendiente", "ingresado"}, tt \in {Undefined, "vip"}}
ListRequests ==
    {Req("list", t, 0, b) : t \in UserIds, b \in ListParams}
    \cup {Req("entry", "a1", i, NoBody) : i \in GuestIds}
NextListRequest == \E q \in ListRequests : Arrive(1, q)
ServeList ==
    \/ getGuests(1)
    \/ checkGuestAccess(1)
    \/ registerEntryFind(1)
    \/ registerEntrySave(1)
NextList == NextListRequest \/ ServeList
SpecList == InitList /\ [][NextList]_vars

(* The routes behind checkGuestAccess called with the id of a guest, with  *)
(* an id no guest has and with a path parameter that is no ObjectId.       *)
MissingRequests ==
    {Req(op, t, i, NoBody) : op \in {"get", "delete", "entry"}, t \in UserIds, i \in GuestIds \cup {MalformedId}}
    \cup {Req(op, t, i, b) : op \in {"update", "gift"}, t \in UserIds, i \in GuestIds \cup {MalformedId},
                              b \in GiftBodies}
NextMissingRequest == \E q \in MissingRequests : Arrive(1, q)
NextMissing == NextMissingRequest \/ ServeAccess
SpecMissing == InitAccess /\ [][NextMissing]_vars

(* Every guest operation, called by the admin one request at a time, with  *)
(* updates that carry a status.                                            *)
InitStatus == InitWith({"invitacion"})
StatusRequests ==
    {Req("create", "a1", 0, [name |-> "bo", email |-> "bo@x.com", phone |-> "556", ticketType |-> "vip"])}
    \cup {Req("list", "a1", 0, [status |-> Undefined, ticketType |-> Undefined])}
    \cup {Req(op, "a1", i, NoBody) : op \in {"get", "delete", "entry"}, i \in GuestIds}
    \cup {Req("update", "a1", i, [status |-> st]) : i \in GuestIds, st \in Statuses}
    \cup {Req("gift", "a1", i, b) : i \in GuestIds, b \in GiftBodies}
    \cup {Req("verify", "a1", 0, [qrCode |-> QrOf(1)])}
    \cup {Req("stats", "a1", 0, NoBody)}
NextStatusRequest == \E q \in StatusRequests : Arrive(1, q)
NextStatus == NextStatusRequest \/ Serve
SpecStatus == InitStatus /\ [][NextStatus]_vars

(* Creates with a complete body, with a required field left out and with  *)
(* a ticket type outside the enumeration, and check-ins in between.        *)
InvalidCreateBodies ==
    {[name |-> Undefined, email |-> "bo@x.com", phone |-> "556", ticketType |-> "vip"],
     [name |-> "bo", email |-> Undefined, phone |-> "556", ticketType |-> "vip"],
     [name |-> "bo", email |-> "bo@x.com", phone |-> "556", ticketType |-> Undefined],
     [name |-> "bo", email |-> "bo@x.com", phone |-> Undefined, ticketType |-> "otro"]}
CreateRequests ==
    {Req("create", t, 0, b) : t \in {"a1", "s1"}, b \in CreateBodies \cup InvalidCreateBodies}
    \cup {Req("entry", "a1", i, NoBody) : i \in GuestIds}
NextCreateRequest == \E q \in CreateRequests : Arrive(1, q)
ServeCreate ==
    \/ createGuest(1)
    \/ checkGuestAccess(1)
    \/ registerEntryFind(1)
    \/ registerEntrySave(1)
NextCreate == NextCreateRequest \/ ServeCreate
SpecCreate == InitQr /\ [][NextCreate]_vars

(* Scans of every code by the admin and both staff users, with check-ins   *)
(* and changes of a guest's code by the admin in between.                  *)
VerifyRequests ==
    {Req("verify", t, 0, [qrCode |-> q]) : t \in UserIds, q \in QrCodes}
    \cup {Req("entry", "a1", i, NoBody) : i \in GuestIds}
    \cup {Req("update", "a1", i, [qrCode |-> "qx"]) : i \in GuestIds}
NextVerifyRequest == \E q \in VerifyRequests : Arrive(1, q)
ServeVerify ==
    \/ verifyGuestByQR(1)
    \/ checkGuestAccess(1)
    \/ registerEntryFind(1)
    \/ registerEntrySave(1)
    \/ updateGuestFind(1)
    \/ updateGuestWrite(1)
NextVerify == NextVerifyRequest \/ ServeVerify
SpecVerify == InitQr /\ [][NextVerify]_vars

(* Gift registrations with two different gifts by the admin and a staff    *)
(* user, one after the other; two answered requests stay visible.          *)
GiftValues == {"g1", "g2"}
GiftSlots == {1, 2}
GiftRequests == {Req("gift", t, i, [gift |-> g]) : t \in {"a1", "s1"}, i \in GuestIds, g \in GiftValues}
NextGiftRequest ==
    \E r \in GiftSlots : \E q \in GiftRequests : (\A o \in Reqs : ~InFlight(o)) /\ Arrive(r, q)
ServeGift == \E r \in GiftSlots : checkGuestAccess(r) \/ registerGiftFind(r) \/ registerGiftSave(r)
NextGift == NextGiftRequest \/ ServeGift
SpecGift == InitStatus /\ [][NextGift]_vars

(* Every guest operation called without a token, with a token that does   *)
(* not verify, with the token of a user that is gone, and by a staff user. *)
AuthTokens == {NoToken, ForgedToken, GoneToken, "s1"}
AuthRequests ==
    {Req("create", t, 0, b) : t \in AuthTokens, b \in CreateBodies}
    \cup {Req("list", t, 0, [status |-> Undefined, ticketType |-> Undefined]) : t \in AuthTokens}
    \cup {Req(op, t, i, NoBody) : op \in {"get", "delete", "entry"}, t \in AuthTokens, i \in GuestIds}
    \cup {Req(op, t, i, b) : op \in {"update", "gift"}, t \in AuthTokens, i \in GuestIds, b \in GiftBodies}
    \cup {Req("verify", t, 0, [qrCode |-> QrOf(1)]) : t \in AuthTokens}
    \cup {Req("stats", t, 0, NoBody) : t \in AuthTokens}
NextAuthRequest == \E q \in AuthRequests : Arrive(1, q)
NextAuth == NextAuthRequest \/ Serve
SpecAuth == InitStatus /\ [][NextAuth]_vars

(* The user administration routes called by the admin, by a staff user    *)
(* and by a user once it is registered, one request at a time.             *)
AdminTokens == {"a1", "s1", "n1"}
AdminTargets == {"a1", "s1", "s2", "zz"}
AdminRequests ==
    {Req("register", t, 0, [username |-> n, role |-> ro]) :
        t \in AdminTokens, n \in {"n1", "s1"}, ro \in {Undefined, "admin", "otro"}}
    \cup {Req("getUsers", t, 0, NoBody) : t \in AdminTokens}
    \cup {Req("deleteUser", t, 0, [id |-> u]) : t \in AdminTokens, u \in AdminTargets}
    \cup {Req("updateUserRole", t, 0, [id |-> u, role |-> ro]) :
        t \in AdminTokens, u \in AdminTargets, ro \in {"admin", "staff", "otro"}}
NextAdminRequest == \E q \in AdminRequests : Arrive(1, q)
ServeAdmin == AdminStep(1)
NextAdmin == NextAdminRequest \/ ServeAdmin
SpecAdmin == InitQr /\ [][NextAdmin]_vars


(* Concurrent check-ins while the clock advances.                          *)
Tick ==
    /\ now < MaxTime
    /\ now' = now + 1
    /\ UNCHANGED <<guests, users, reqs>>
NextClock == NextEntryRequest \/ ServeEntry \/ Tick
SpecClock == InitCheckIn /\ [][NextClock]_vars


(* Updates with valid and invalid patches, by the admin and by a staff     *)
(* user, served one at a time.                                             *)
PatchBodies ==
    {[status |-> "otro"], [email |-> ""]}
    \cup {[ticketType |-> tt] : tt \in {"vip", "otro"}}
    \cup {[name |-> n] : n \in {"bo", ""}}
    \cup {[name |-> "cy", status |-> "otro"]}
PatchRequests == {Req("update", t, i, b) : t \in {"a1", "s1"}, i \in GuestIds, b \in PatchBodies}
NextPatchRequest == \E q \in PatchRequests : Arrive(1, q)
ServePatch == checkGuestAccess(1) \/ updateGuestFind(1) \/ updateGuestWrite(1)
NextPatch == NextPatchRequest \/ ServePatch
SpecPatch == InitCheckIn /\ [][NextPatch]_vars


(* Concurrent check-ins by the admin, by a staff user and without a token, *)
(* on guests that exist, on missing ones and on a malformed id, while the  *)
(* clock advances.                                                         *)
FailingEntryRequests ==
    {Req("entry", t, i, NoBody) : t \in {"a1", "s1", NoToken}, i \in GuestIds \cup {MalformedId}}
NextFailingEntryRequest ==
    \E r \in Reqs : \E q \in FailingEntryRequests : reqs[r].pc = "idle" /\ Arrive(r, q)
NextFailingEntry == NextFailingEntryRequest \/ ServeEntry \/ Tick
SpecEntryFail == InitCheckIn /\ [][NextFailingEntry]_vars


(* Concurrent role changes and user deletions by the admin and by a user   *)
(* the admin may promote.                                                  *)
RaceRequests ==
    {Req("deleteUser", t, 0, [id |-> u]) : t \in {"a1", "s1"}, u \in {"a1", "s1"}}
    \cup {Req("updateUserRole", t, 0, [id |-> u, role |-> ro]) :
            t \in {"a1", "s1"}, u \in {"a1", "s1"}, ro \in Roles}
NextRaceRequest == \E r \in Reqs : \E q \in RaceRequests : Arrive(r, q)
ServeRace == \E r \in Reqs : deleteUser(r) \/ updateUserRoleFind(r) \/ updateUserRoleSave(r)
NextRace == NextRaceRequest \/ ServeRace
SpecAdminRace == InitQr /\ [][NextRace]_vars


(* A delete served concurrently with a check-in, a gift and an update of   *)
(* the same guests, all by the admin; every request slot serves one        *)
(* request.                                                                *)
LateRequests ==
    {Req(op, "a1", i, NoBody) : op \in {"delete", "entry"}, i \in GuestIds}
    \cup {Req("gift", "a1", i, b) : i \in GuestIds, b \in GiftBodies}
    \cup {Req("update", "a1", i, [name |-> "bo"]) : i \in GuestIds}
NextLateRequest == \E r \in Reqs : \E q \in LateRequests : reqs[r].pc = "idle" /\ Arrive(r, q)
ServeLate ==
    \E r \in Reqs :
       \/ checkGuestAccess(r)
       \/ deleteGuest(r)
       \/ registerEntryFind(r)
       \/ registerEntrySave(r)
       \/ registerGiftFind(r)
       \/ registerGiftSave(r)
       \/ updateGuestFind(r)
       \/ updateGuestWrite(r)
NextLate == NextLateRequest \/ ServeLate
SpecLate == InitStatus /\ [][NextLate]_vars


(* Check-ins and gifts served concurrently with updates of the name and    *)
(* the phone of the same guests, all by the admin; every request slot      *)
(* serves one request.                                                     *)
FrameRequests ==
    {Req("entry", "a1", i, NoBody) : i \in GuestIds}
    \cup {Req("gift", "a1", i, b) : i \in GuestIds, b \in GiftBodies}
    \cup {Req("update", "a1", i, b) : i \in GuestIds, b \in {[name |-> "bo"], [phone |-> "556"]}}
NextFrameRequest == \E r \in Reqs : \E q \in FrameRequests : reqs[r].pc = "idle" /\ Arrive(r, q)
ServeFrame ==
    \E r \in Reqs :
       \/ checkGuestAccess(r)
       \/ registerEntryFind(r)
       \/ registerEntrySave(r)
       \/ registerGiftFind(r)
       \/ registerGiftSave(r)
       \/ updateGuestFind(r)
       \/ updateGuestWrite(r)
NextFrame == NextFrameRequest \/ ServeFrame
SpecFrame == InitStatus /\ [][NextFrame]_vars

(* ------------------------------- claims ------------------------------- *)
Answered(r) == reqs[r].pc = "done"
Moves(r) == reqs'[r] # reqs[r]
Target(r) == guests[reqs[r].id]

(* C1: of the registerEntry requests served concurrently on one guest that *)
(* is pendiente, exactly one is answered 200 and every other one 400.      *)
EntryWinners(g) == {r \in Reqs : Answered(r) /\ reqs[r].op = "entry" /\ reqs[r].id = g /\ reqs[r].code = 200}
EntryLosers(g) == {r \in Reqs : Answered(r) /\ reqs[r].op = "entry" /\ reqs[r].id = g /\ reqs[r].code = 400}
EntryAnswered(g) == {r \in Reqs : Answered(r) /\ reqs[r].op = "entry" /\ reqs[r].id = g /\ reqs[r].code \in {200, 400, 500}}
ExactlyOneEntrySucceeds ==
    \A g \in DOMAIN guests :
        EntryAnswered(g) # {} =>
            /\ Cardinality(EntryWinners(g)) = 1
            /\ EntryAnswered(g) \ EntryWinners(g) = EntryLosers(g)

(* C2: served without interleaving, registerEntry on an existing guest is  *)
(* answered 200 exactly when the guest is pendiente before the call; the   *)
(* guest is then ingresado with an entry time, and any other answer is 400 *)
(* (so is the answer to a second call).                                    *)
EntryIffPending ==
    [][\A r \in Reqs :
          (reqs[r].op = "entry" /\ reqs[r].pc \in {"find", "write"} /\ Moves(r)) =>
             /\ reqs[r].id \in DOMAIN guests
             /\ reqs[r].pc = "find" /\ Target(r).status = "pendiente" => reqs'[r].pc = "write"
             /\ reqs'[r].pc = "done" =>
                  /\ reqs'[r].code = 200 <=> Target(r).status = "pendiente"
                  /\ reqs'[r].code # 200 => reqs'[r].code = 400 /\ guests' = guests
                  /\ reqs'[r].code = 200 =>
                        /\ guests'[reqs[r].id].status = "ingresado"
                        /\ guests'[reqs[r].id].entryTime # NullDate]_vars

SecondEntryRefused ==
    /\ Answered(1) /\ reqs[1].op = "entry" /\ reqs[1].code = 400
    /\ reqs[1].id \in DOMAIN guests
    /\ Target(1).status = "ingresado" /\ Target(1).entryTime # NullDate

(* C3: a status only ever changes from pendiente, to ingresado or to       *)
(* cancelado; no guest returns to pendiente.                               *)
StatusOneWay ==
    [][\A i \in DOMAIN guests \cap DOMAIN guests' :
          guests'[i].status # guests[i].status =>
             guests[i].status = "pendiente" /\ guests'[i].status \in {"ingresado", "cancelado"}]_vars

(* C4: no two guests in the collection hold the same qrCode.               *)
QrCodeUnique ==
    \A i \in DOMAIN guests : \A j \in DOMAIN guests : i # j => guests[i].qrCode # guests[j].qrCode

DuplicateQrRefused ==
    \E r \in Reqs :
        /\ Answered(r) /\ reqs[r].op = "update" /\ reqs[r].code = 400
        /\ \E i \in DOMAIN guests : guests[i].qrCode # QrOf(i)

(* C5: a staff principal's get, update, delete, registerEntry or           *)
(* registerGift on a guest somebody else created is answered 403 and       *)
(* changes no guest, and never gets past the access check; an admin is     *)
(* never answered 403.                                                     *)
OwnershipIsolation ==
    [][\A r \in Reqs :
          /\ (InFlight(r) /\ reqs[r].op \in IdOps /\ reqs[r].user.role = "staff"
                /\ reqs[r].id \in DOMAIN guests /\ Target(r).createdBy # reqs[r].user.id) =>
                /\ reqs[r].pc = "access"
                /\ Moves(r) => reqs'[r].pc = "done" /\ reqs'[r].code = 403 /\ guests' = guests
          /\ (InFlight(r) /\ reqs[r].user.role = "admin" /\ Moves(r)) => reqs'[r].code # 403]_vars

StaffDenied ==
    /\ Answered(1) /\ reqs[1].op = "entry" /\ reqs[1].code = 403
    /\ reqs[1].id \in DOMAIN guests /\ Target(1).status = "pendiente"

(* C6: every guest that has a gift is of ticket type invitacion.           *)
GiftOnlyForInvitacion ==
    \A i \in DOMAIN guests : guests[i].gift # Null => guests[i].ticketType = "invitacion"

(* C7: registerGift on a vip or general guest is answered 400 and leaves   *)
(* the gift as it was.                                                     *)
GiftRefusedWith400 ==
    [][\A r \in Reqs :
          (reqs[r].op = "gift" /\ reqs[r].pc = "find" /\ reqs[r].id \in DOMAIN guests
             /\ Target(r).ticketType \in {"vip", "general"} /\ Moves(r)) =>
             /\ reqs'[r].pc = "done" /\ reqs'[r].code = 400
             /\ guests'[reqs[r].id].gift = Target(r).gift]_vars

(* C8: a create by an admin or staff principal with a name, an email and a *)
(* ticket type of the enumeration is answered 201 and stores exactly one   *)
(* new guest: pendiente, with a qrCode, no gift, no entry time, created by *)
(* the principal.                                                          *)
ValidCreate(body) ==
    /\ body.name \notin {Undefined, Null, ""} /\ body.email \notin {Undefined, Null, ""}
    /\ body.ticketType \in TicketTypes
CreateSucceeds ==
    [][\A r \in Reqs :
          (reqs[r].op = "create" /\ reqs[r].pc = "find" /\ reqs[r].user.role \in Roles
             /\ ValidCreate(reqs[r].body) /\ Moves(r)) =>
             /\ reqs'[r].code = 201
             /\ \E i \in DOMAIN guests' \ DOMAIN guests :
                   /\ DOMAIN guests' = DOMAIN guests \cup {i}
                   /\ guests'[i].status = "pendiente"
                   /\ guests'[i].qrCode \notin {Undefined, Null, ""}
                   /\ guests'[i].gift = Null /\ guests'[i].entryTime = NullDate
                   /\ guests'[i].createdBy = reqs[r].user.id
             /\ \A j \in DOMAIN guests : guests'[j] = guests[j]]_vars

(* C9: a guest has an entry time exactly when its status is ingresado.     *)
EntryTimeIffEntered ==
    \A i \in DOMAIN guests : guests[i].entryTime # NullDate <=> guests[i].status = "ingresado"

(* C10: the stats report counts the guests, those ingresado and pendiente, *)
(* those of each ticket type and those with a gift; every count is 0 on an *)
(* empty collection.                                                       *)
CountOf(S) == Cardinality(S)
StatsExact ==
    \A r \in Reqs :
        (Answered(r) /\ reqs[r].op = "stats" /\ reqs[r].code # 401) =>
            /\ reqs[r].code = 200
            /\ reqs[r].data.kind = "stats"
            /\ LET st == reqs[r].data.stats
                   G == DOMAIN guests
               IN  /\ st.totalGuests = CountOf(G)
                   /\ st.enteredGuests = CountOf({i \in G : guests[i].status = "ingresado"})
                   /\ st.pendingGuests = CountOf({i \in G : guests[i].status = "pendiente"})
                   /\ st.vipGuests = CountOf({i \in G : guests[i].ticketType = "vip"})
                   /\ st.generalGuests = CountOf({i \in G : guests[i].ticketType = "general"})
                   /\ st.invitacionGuests = CountOf({i \in G : guests[i].ticketType = "invitacion"})
                   /\ st.giftsRegistered = CountOf({i \in G : guests[i].gift # Null})
                   /\ G = {} => st = ZeroStats

StatsOfMixedGuests ==
    /\ Answered(1) /\ reqs[1].op = "stats" /\ reqs[1].code = 200
    /\ reqs[1].data.stats.totalGuests = 2
    /\ reqs[1].data.stats.enteredGuests = 1
    /\ reqs[1].data.stats.pendingGuests = 1
    /\ reqs[1].data.stats.giftsRegistered = 1

(* C11: a list request is answered 200 with exactly the guests the         *)
(* principal may see (all of them for an admin, those it created for a     *)
(* staff user) that match the status and ticketType filters given, each    *)
(* once, in an order in which createdAt never increases.                   *)
Visible(r) ==
    {i \in DOMAIN guests :
        /\ reqs[r].user.role = "admin" \/ guests[i].createdBy = reqs[r].user.id
        /\ reqs[r].body.status # Undefined => guests[i].status = reqs[r].body.status
        /\ reqs[r].body.ticketType # Undefined => guests[i].ticketType = reqs[r].body.ticketType}
ListExact ==
    [][\A r \in Reqs :
          (reqs[r].op = "list" /\ reqs[r].pc = "find" /\ Moves(r)) =>
             /\ reqs'[r].pc = "done" /\ reqs'[r].code = 200 /\ reqs'[r].data.kind = "list"
             /\ LET L == reqs'[r].data.guests
                IN  /\ Len(L) = Cardinality(Visible(r))
                    /\ {L[k] : k \in 1..Len(L)} = {guests[i] : i \in Visible(r)}
                    /\ \A a \in 1..Len(L) : \A b \in 1..Len(L) :
                          a < b => L[a].createdAt >= L[b].createdAt
             /\ guests' = guests]_vars

ListNewestFirst ==
    /\ Answered(1) /\ reqs[1].op = "list" /\ reqs[1].code = 200
    /\ Len(reqs[1].data.guests) = 2
    /\ reqs[1].data.guests[1].createdAt > reqs[1].data.guests[2].createdAt
    /\ reqs[1].data.guests[1].status # reqs[1].data.guests[2].status

(* C12: get, update, delete, registerEntry and registerGift on an id that  *)
(* matches no guest are answered 404 for every authenticated principal,    *)
(* and 403 is only ever the answer for a guest that exists.                *)
MissingIs404 ==
    [][\A r \in Reqs :
          (InFlight(r) /\ reqs[r].op \in IdOps /\ Moves(r)) =>
             /\ reqs[r].id \notin DOMAIN guests => reqs'[r].pc = "done" /\ reqs'[r].code = 404
             /\ reqs'[r].pc = "done" /\ reqs'[r].code = 403 => reqs[r].id \in DOMAIN guests]_vars

(* C13: an update request, whatever its patch, leaves the qrCode, the      *)
(* createdBy and the createdAt of its target guest as they were.           *)
UpdateKeepsIdentity ==
    [][\A r \in Reqs :
          (reqs[r].op = "update" /\ reqs[r].pc = "write" /\ reqs[r].id \in DOMAIN guests /\ Moves(r)) =>
             /\ reqs[r].id \in DOMAIN guests'
             /\ guests'[reqs[r].id].qrCode = Target(r).qrCode
             /\ guests'[reqs[r].id].createdBy = Target(r).createdBy
             /\ guests'[reqs[r].id].createdAt = Target(r).createdAt]_vars

(* C14 as stated: no guest ever has status cancelado.                      *)
NoCancelado == \A i \in DOMAIN guests : guests[i].status # "cancelado"

(* C14: a guest's status becomes cancelado only in the write of an update  *)
(* request on that guest whose patch sets status to cancelado; create,     *)
(* get, list, delete, registerEntry, registerGift, verifyByQR and stats    *)
(* never produce it.                                                       *)
CanceladoOnlyByUpdate ==
    [][\A i \in DOMAIN guests' :
          (guests'[i].status = "cancelado" /\ (i \in DOMAIN guests => guests[i].status # "cancelado")) =>
             \E r \in Reqs :
                /\ reqs[r].op = "update" /\ reqs[r].pc = "write" /\ reqs[r].id = i /\ Moves(r)
                /\ "status" \in DOMAIN reqs[r].body /\ reqs[r].body.status = "cancelado"]_vars

CanceladoByUpdate ==
    /\ Answered(1) /\ reqs[1].op = "update" /\ reqs[1].code = 200
    /\ reqs[1].id \in DOMAIN guests /\ Target(1).status = "cancelado"
    /\ reqs[1].data = GuestData(Target(1))

(* C15: a create request without a name, without an email, without a       *)
(* ticket type or with a ticket type outside vip, general, invitacion is   *)
(* answered 400 with the validation messages of the paths at fault, and    *)
(* stores no guest.                                                        *)
InvalidCreateRefused ==
    [][\A r \in Reqs :
          (reqs[r].op = "create" /\ reqs[r].pc = "find" /\ ~ValidCreate(reqs[r].body) /\ Moves(r)) =>
             /\ reqs'[r].pc = "done" /\ reqs'[r].code = 400
             /\ reqs'[r].data.kind = "validation"
             /\ reqs[r].body.name = Undefined => "name" \in reqs'[r].data.messages
             /\ reqs[r].body.email = Undefined => "email" \in reqs'[r].data.messages
             /\ reqs[r].body.ticketType \notin TicketTypes => "ticketType" \in reqs'[r].data.messages
             /\ guests' = guests]_vars

CreateWithoutNameRefused ==
    /\ Answered(1) /\ reqs[1].op = "create" /\ reqs[1].code = 400
    /\ reqs[1].data.kind = "validation" /\ "name" \in reqs[1].data.messages
    /\ DOMAIN guests # GuestIds

(* C16: verifyByQR by any authenticated principal, admin or staff, owner   *)
(* of the guest or not, is answered 200 with the one guest that holds the  *)
(* code, and 404 when no guest holds it; it changes no guest.              *)
VerifyByCode ==
    [][\A r \in Reqs :
          (reqs[r].op = "verify" /\ reqs[r].pc = "find" /\ Moves(r)) =>
             LET holders == {i \in DOMAIN guests : guests[i].qrCode = reqs[r].body.qrCode}
             IN  /\ reqs'[r].pc = "done"
                 /\ guests' = guests
                 /\ holders = {} => reqs'[r].code = 404
                 /\ holders # {} =>
                       /\ Cardinality(holders) = 1
                       /\ reqs'[r].code = 200
                       /\ \E i \in holders : reqs'[r].data = GuestData(guests[i])]_vars

StaffScansForeignGuest ==
    /\ Answered(1) /\ reqs[1].op = "verify" /\ reqs[1].code = 200
    /\ reqs[1].token = "s1" /\ users["s1"] = "staff"
    /\ reqs[1].data.guest.createdBy = "s2"
    /\ reqs[1].data.guest.status = "ingresado"
    /\ reqs[1].data.guest \in {guests[i] : i \in DOMAIN guests}

(* C17: a delete request by the owner or by an admin on an existing guest  *)
(* is answered 200 and removes the guest: its id and its code are no       *)
(* longer in the collection, which holds one guest less.                   *)
DeleteRemoves ==
    [][\A r \in Reqs :
          (reqs[r].op = "delete" /\ reqs[r].pc = "find" /\ reqs[r].id \in DOMAIN guests
             /\ (reqs[r].user.role = "admin" \/ Target(r).createdBy = reqs[r].user.id) /\ Moves(r)) =>
             /\ reqs'[r].pc = "done" /\ reqs'[r].code = 200
             /\ reqs[r].id \notin DOMAIN guests'
             /\ \A j \in DOMAIN guests' : guests'[j].qrCode # Target(r).qrCode
             /\ Cardinality(DOMAIN guests') + 1 = Cardinality(DOMAIN guests)]_vars

(* C18: a registerGift request that passed the access check on a guest of  *)
(* ticket type invitacion is answered 200 with the guest and sets its gift *)
(* to the value supplied, whether the gift was null or set before; of two  *)
(* successive calls the later one's value stays.                           *)
GiftSetsValue ==
    [][\A r \in Reqs :
          (reqs[r].op = "gift" /\ reqs[r].pc \in {"find", "write"} /\ reqs[r].id \in DOMAIN guests
             /\ Target(r).ticketType = "invitacion" /\ Moves(r)) =>
             /\ reqs[r].pc = "find" => reqs'[r].pc = "write" /\ guests' = guests
             /\ reqs[r].pc = "write" =>
                   /\ reqs'[r].pc = "done" /\ reqs'[r].code = 200
                   /\ guests'[reqs[r].id].gift = reqs[r].body.gift
                   /\ reqs'[r].data = GuestData(guests'[reqs[r].id])]_vars

GiftOverwritten ==
    /\ Answered(1) /\ reqs[1].op = "gift" /\ reqs[1].code = 200
    /\ Answered(2) /\ reqs[2].op = "gift" /\ reqs[2].code = 200
    /\ reqs[1].id = reqs[2].id
    /\ reqs[1].data.guest.gift = "g1" /\ reqs[2].data.guest.gift = "g2"
    /\ Target(2).gift = "g2"

(* C19: a guest request that arrives with no token, with a token that does *)
(* not verify or with the token of a user that is not in the collection is *)
(* answered 401 on arrival, before any handler step, and changes no guest. *)
Unauthenticated(token) == token \in {NoToken, ForgedToken} \/ token \notin DOMAIN users
UnauthenticatedRejected ==
    [][\A r \in Reqs :
          (~InFlight(r) /\ Moves(r) /\ reqs'[r].pc # "idle" /\ Unauthenticated(reqs'[r].token)) =>
             /\ reqs'[r].pc = "done" /\ reqs'[r].code = 401 /\ reqs'[r].data = NoData
             /\ guests' = guests]_vars

GoneUserRejected ==
    /\ Answered(1) /\ reqs[1].op = "entry" /\ reqs[1].token = GoneToken /\ reqs[1].code = 401
    /\ reqs[1].id \in DOMAIN guests /\ Target(1).status = "pendiente"

(* C20: register, getUsers, deleteUser and updateUserRole called by a user *)
(* whose role is not admin are answered 403 on arrival and leave the users *)
(* and their roles as they were; the users only change in a step of a      *)
(* request that an admin sent.                                             *)
NonAdminForbidden ==
    [][/\ \A r \in Reqs :
            (~InFlight(r) /\ Moves(r)
               /\ reqs'[r].op \in {"register", "getUsers", "deleteUser", "updateUserRole"}
               /\ reqs'[r].token \in DOMAIN users /\ users[reqs'[r].token] # "admin") =>
               /\ reqs'[r].pc = "done" /\ reqs'[r].code = 403
               /\ users' = users
       /\ users' # users => \E r \in Reqs : InFlight(r) /\ Moves(r) /\ reqs[r].user.role = "admin"]_vars

StaffRegisterForbidden ==
    /\ Answered(1) /\ reqs[1].op = "register" /\ reqs[1].code = 403
    /\ reqs[1].token = "s1" /\ users["s1"] = "staff"
    /\ "n1" \notin DOMAIN users


(* C21: once the entry time of a guest is set it keeps its value in every  *)
(* later state.                                                            *)
EntryTimeSetOnce ==
    [][\A i \in DOMAIN guests :
          guests[i].entryTime # NullDate =>
             i \in DOMAIN guests' /\ guests'[i].entryTime = guests[i].entryTime]_vars


(* C22: the ticket type of a guest is the one it was created with: no     *)
(* step changes it.                                                        *)
TicketTypeFixed ==
    [][\A i \in DOMAIN guests \cap DOMAIN guests' :
          guests'[i].ticketType = guests[i].ticketType]_vars


(* C23: an update by a caller with access to the guest whose patch sets    *)
(* ticketType or status outside its enumerated set, or name or email to an *)
(* empty value, is answered 400 and no guest changes.                      *)
BadPatch(body) ==
    \/ "ticketType" \in DOMAIN body /\ body.ticketType \notin TicketTypes
    \/ "status" \in DOMAIN body /\ body.status \notin Statuses
    \/ "name" \in DOMAIN body /\ body.name = ""
    \/ "email" \in DOMAIN body /\ body.email = ""
InvalidUpdateRefused ==
    [][\A r \in Reqs :
          /\ reqs[r].op = "update" /\ reqs[r].pc = "write" /\ Moves(r)
          /\ reqs[r].id \in DOMAIN guests
          /\ BadPatch(reqs[r].body)
          => /\ Answered(r)'
             /\ reqs'[r].code = 400
             /\ guests' = guests]_vars
(* A valid update has renamed a guest, and a later one with an empty       *)
(* email is refused for that path.                                         *)
EmptyEmailRefused ==
    \E r \in Reqs :
       /\ Answered(r) /\ reqs[r].op = "update" /\ reqs[r].code = 400
       /\ reqs[r].data = [kind |-> "validation", messages |-> {"email"}]
       /\ reqs[r].id \in DOMAIN guests
       /\ Target(r).name = "bo" /\ Target(r).email = "ana@x.com"


(* C24: a step of a registerEntry request other than the one that answers  *)
(* it 200 leaves the status and the entry time of every guest as they      *)
(* were, so a request that fails has changed neither.                      *)
FailedEntryChangesNothing ==
    [][\A r \in Reqs :
          /\ reqs'[r].op = "entry" /\ Moves(r)
          /\ ~(Answered(r)' /\ reqs'[r].code = 200)
          => /\ DOMAIN guests' = DOMAIN guests
             /\ \A i \in DOMAIN guests :
                   /\ guests'[i].status = guests[i].status
                   /\ guests'[i].entryTime = guests[i].entryTime]_vars
(* A check-in at time 1 succeeded and a later one on the same guest was    *)
(* refused: the guest still carries the first entry time.                  *)
RefusedEntryKeepsTime ==
    \E r \in Reqs :
       /\ Answered(r) /\ reqs[r].op = "entry" /\ reqs[r].code = 400
       /\ reqs[r].id \in DOMAIN guests
       /\ Target(r).status = "ingresado" /\ Target(r).entryTime = 1
       /\ now = MaxTime


(* C25: when some user has the role admin, some user has the role admin    *)
(* after every step.                                                       *)
AdminRemains ==
    [][(\E u \in DOMAIN users : users[u] = "admin")
          => (\E u \in DOMAIN users' : users'[u] = "admin")]_vars


OwnPaths(op) == IF op = "entry" THEN {"status", "entryTime"} ELSE {"gift"}
WritesOnlyOwnFields ==
    [][\A r \in Reqs :
          /\ reqs[r].op \in {"entry", "gift"} /\ Moves(r)
          /\ Answered(r)' /\ reqs'[r].code = 200
          => /\ DOMAIN guests' = DOMAIN guests
             /\ \A i \in DOMAIN guests : \A p \in DOMAIN guests[i] :
                   i # reqs[r].id \/ p \notin OwnPaths(reqs[r].op)
                      => guests'[i][p] = guests[i][p]]_vars
(* A check-in read its guest under the old name, an update renamed the     *)
(* guest, then the check-in was saved: the stored guest has the new name   *)
(* and is ingresado.                                                       *)
EntryKeepsConcurrentRename ==
    \E r \in Reqs :
       /\ Answered(r) /\ reqs[r].op = "entry" /\ reqs[r].code = 200
       /\ reqs[r].data.guest.name = "ana"
       /\ reqs[r].id \in DOMAIN guests
       /\ Target(r).name = "bo" /\ Target(r).status = "ingresado"


(* C28: when a deleteUser on user u completes, a request that carries u's  *)
(* token is no longer authenticated (protect finds no user, the answer is  *)
(* 401); when an updateUserRole on u completes, a request by u is          *)
(* authorized with the new role.                                           *)
DeleteCompletes(r) ==
    /\ reqs[r].op = "deleteUser" /\ reqs[r].pc = "find" /\ Moves(r)
    /\ reqs[r].body.id \in DOMAIN users
    /\ reqs[r].body.id # reqs[r].user.id
RoleChangeCompletes(r) ==
    /\ reqs[r].op = "updateUserRole" /\ reqs[r].pc = "write" /\ Moves(r)
    /\ reqs'[r].code = 200
TokenFollowsUser ==
    [][\A r \in Reqs : \A u \in DOMAIN users :
          /\ DeleteCompletes(r) /\ reqs[r].body.id = u => protect(u)' = NoUser
          /\ RoleChangeCompletes(r) /\ reqs[r].body.id = u
                => \E ro \in Roles : reqs[r].body.role = ro /\ protect(u)' = [id |-> u, role |-> ro]]_vars


RECURSIVE AllGuests(_, _)
AllGuests(store, ids) ==
    IF ids = {} THEN <<>>
    ELSE LET i == CHOOSE j \in ids : \A k \in ids : k <= j
         IN  Append(AllGuests(store, ids \ {i}), store[i])
HelperAgreesWithStats ==
    \A r \in Reqs :
        (Answered(r) /\ reqs[r].op = "stats" /\ reqs[r].code = 200) =>
            LET st == reqs[r].data.stats
                cs == calculateStats(AllGuests(guests, DOMAIN guests))
            IN  /\ cs.total = st.totalGuests
                /\ cs.byTicketType.vip = st.vipGuests
                /\ cs.byTicketType.general = st.generalGuests
                /\ cs.byTicketType.invitacion = st.invitacionGuests
                /\ cs.byStatus.ingresado = st.enteredGuests
                /\ cs.byStatus.pendiente = st.pendingGuests
                /\ cs.giftsReceived = st.giftsRegistered

=============================================================================
